---- MODULE Spec2Model ----
(***************************************************************************)
(* Model of the template migration handler                                 *)
(*   src/app/api/migrate/templates/route.ts  (export async function POST)  *)
(*                                                                         *)
(* One run of POST is a sequential program.  Each action below is the code *)
(* between two awaits (or up to a return).  The collaborators              *)
(* (getIntegrationTokens, getSFMCToken, getSFMCFolders, createSFMCFolder,  *)
(* createHubspotClient, axios.get, convertHubspotTemplate,                 *)
(* createEmailTemplate) are outside the handler: each call either returns  *)
(* or throws, chosen nondeterministically.  Every call is appended to      *)
(* `calls`, every NextResponse.json that is returned to `responses`.       *)
(***************************************************************************)
EXTENDS Integers, Sequences, FiniteSets

VARIABLES
  req,                    \* the parsed request body (line 14)
  account,                \* environment: templates the source account can list
  pc,                     \* position of the handler
  hubspotAccessToken,     \* line 24
  sfmcAccessToken,        \* line 53
  contentBuilderFolderId, \* line 97
  foldersResponse,        \* foldersResponse.items (line 106)
  rootFolderId,           \* contentBuilderFolder.id (line 112)
  fetchErrors,            \* endpoints whose request failed so far, in order (cmsError, v3Error, v1Error, error)
  hubspotTemplates,       \* line 223
  templateToMigrate,      \* line 319 (FetchMode)
  idx,                    \* number of loop iterations completed (lines 161, 329)
  results,                \* lines 157, 325
  errors,                 \* lines 158, 326
  calls,                  \* log of collaborator calls, in call order
  responses,              \* responses returned by the handler
  sfmcFolders,            \* environment: the destination's folder list, <<items>> once a run has read it
  history                 \* the runs completed before the current one, oldest first

vars == <<req, account, pc, hubspotAccessToken, sfmcAccessToken, contentBuilderFolderId,
          foldersResponse, rootFolderId, fetchErrors, hubspotTemplates, templateToMigrate, idx, results, errors, calls, responses,
          sfmcFolders, history>>

----------------------------------------------------------------------------
(* Bounds of the model *)

MaxTemplates == 2       \* longest list a source endpoint returns
MaxCustom == 2          \* longest customTemplates array
MaxLimit == 1           \* largest explicit limit of a request

(* limit = 10 when the body has no limit (line 14) *)
DefaultLimit == 10

\* The source endpoints in the order of the nested try blocks (lines 229, 244, 259, 273).
Endpoints ==
  << "content/api/v2/templates", "marketing/v3/marketing-emails/templates",
     "marketing-emails/v1/templates", "email/public/v1/templates" >>

----------------------------------------------------------------------------
(* Values *)

\* A field of a template: absent (undefined, null or ''), a non-empty string
\* without '<', a string containing '<', or a truthy value that is no string.
Absent == "absent"
Text == "text"
Html == "html"
Object == "object"

Template(name, id, source, content, html, body, htmlContent, htmlBody, design, template) ==
  [name |-> name, id |-> id, source |-> source, content |-> content, html |-> html,
   body |-> body, htmlContent |-> htmlContent, htmlBody |-> htmlBody,
   design |-> design, template |-> template]

\* Templates of the source account used for the runs of Spec: one with source,
\* one with content and html, one without markup, one with markup in design
\* only.  (SpecMarkup runs over every combination of fields.)
SampleTemplates ==
  { Template("cms", "h1", Html, Absent, Absent, Absent, Absent, Absent, Absent, Absent),
    Template("both", "h2", Absent, Text, Html, Absent, Absent, Absent, Absent, Absent),
    Template("empty", "h4", Absent, Absent, Absent, Text, Absent, Absent, Object, Absent),
    Template("drag", "h5", Absent, Absent, Absent, Absent, Absent, Absent, Html, Absent) }

\* Every combination of field values, for the runs of SpecMarkup.
AllTemplates ==
  { Template("t", "h0", s, c, h, b, hc, hb, d, t) :
      s \in {Absent, Text, Html}, c \in {Absent, Text, Html}, h \in {Absent, Text, Html},
      b \in {Absent, Text, Html, Object}, hc \in {Absent, Text, Html, Object},
      hb \in {Absent, Text, Html, Object}, d \in {Absent, Text, Html, Object},
      t \in {Absent, Text, Html, Object} }

\* A list can also hold the JSON value null in the place of a template.  It is
\* kept as a record of the same shape whose every field is Null: reading a
\* property of it throws a TypeError.
Null == "null"
NullTemplate == Template(Null, Null, Null, Null, Null, Null, Null, Null, Null, Null)
IsNull(template) == template = NullTemplate

\* What a source endpoint can hold in its list.
AccountItems == SampleTemplates \cup {NullTemplate}

\* Elements of customTemplates: {id?, name, content?|html?}.
CustomTemplate(name, id, content, html) ==
  Template(name, id, Absent, content, html, Absent, Absent, Absent, Absent, Absent)

CustomSamples ==
  { CustomTemplate("Promo", "c1", Html, Absent),
    CustomTemplate("News", Absent, Absent, Html),
    CustomTemplate("Bare", Absent, Absent, Absent) }

\* What customTemplates can hold.
CustomItems == CustomSamples \cup {NullTemplate}

RECURSIVE SeqsUpTo(_, _)
SeqsUpTo(S, n) ==
  IF n = 0 THEN {<<>>}
  ELSE LET shorter == SeqsUpTo(S, n - 1)
       IN shorter \cup { Append(s, x) : s \in {q \in shorter : Len(q) = n - 1}, x \in S }

\* Values of limit: a negative one, 0..MaxLimit, and the default of a body without limit.
Limits == {-1} \cup (0..MaxLimit) \cup {DefaultLimit}

\* Bodies that are JSON objects.
ObjectRequests ==
  [body : {"object"},
   userId : BOOLEAN,                       \* userId present (truthy)
   hubspotToken : {Absent, "inlineHubspotToken"},
   sfmcCredentials : {Absent, "partial", "full"},
   limit : Limits,
   folderId : {Absent, "folderGiven"},
   customTemplates : SeqsUpTo(CustomItems, MaxCustom)]

\* Bodies that are no JSON object: the JSON value null, and text that
\* request.json() cannot parse.  They have no field.
NonObjectRequests ==
  [body : {"null", "unparsable"},
   userId : {FALSE},
   hubspotToken : {Absent},
   sfmcCredentials : {Absent},
   limit : {DefaultLimit},
   folderId : {Absent},
   customTemplates : {<<>>}]

Requests == ObjectRequests \cup NonObjectRequests

\* Folders of the destination.
Folder(id, name, parentId) == [id |-> id, name |-> name, parentId |-> parentId]
RootFolder == Folder("f1", "Content Builder", "f0")
ChildFolder == Folder("f2", "HubSpot Templates", "f1")
StrayFolder == Folder("f3", "HubSpot Templates", "f9")
LowerFolder == Folder("f4", "content builder", "f0")

FolderLists ==
  { <<>>, <<LowerFolder, StrayFolder>>, <<RootFolder>>, <<RootFolder, ChildFolder>>,
    <<StrayFolder, RootFolder>>, <<StrayFolder, RootFolder, ChildFolder>> }

----------------------------------------------------------------------------
(* Logs *)

\* One collaborator call and how it ended: "returned", "threw", or for the
\* credential store "absent" (it returned no row).
Call(op, pos, name, folder, token, field, result) ==
  [op |-> op, pos |-> pos, name |-> name, folder |-> folder, token |-> token,
   field |-> field, result |-> result]

Log(c) == calls' = Append(calls, c)

NoDetails == "none"

\* Variant of ErrorResponse: the error response also carries a summary.
ErrorResponseWithSummary(status, error, details) ==
  [status |-> status,
   fields |-> {"error", "details", "migrated", "errors"},
   error |-> error, details |-> details,
   migrated |-> <<>>, errors |-> <<>>, templatesCount |-> 0, totalAttempted |-> 0]

\* NextResponse.json({ error, details? }, { status })
ErrorResponse(status, error, details) ==
  [status |-> status,
   fields |-> IF details = NoDetails THEN {"error"} ELSE {"error", "details"},
   error |-> error, details |-> details,
   migrated |-> <<>>, errors |-> <<>>, templatesCount |-> 0, totalAttempted |-> 0]

\* The success summary of lines 208-215 and 413-420.  NextResponse.json(body)
\* without a status option is a 200 response; errors is undefined when empty.
SummaryResponse(migrated, errs, total) ==
  [status |-> 200,
   fields |-> {"success", "message", "migrated", "templatesCount", "totalAttempted"}
              \cup (IF Len(errs) > 0 THEN {"errors"} ELSE {}),
   error |-> "none", details |-> NoDetails,
   migrated |-> migrated, errors |-> errs,
   templatesCount |-> Len(migrated), totalAttempted |-> total]

\* Variant of NoTemplatesResponse: an empty account is reported as an error.
NoTemplatesNotFound ==
  [status |-> 404,
   fields |-> {"error"},
   error |-> "No email templates found in HubSpot account", details |-> "none",
   migrated |-> <<>>, errors |-> <<>>, templatesCount |-> 0, totalAttempted |-> 0]

\* lines 306-311
NoTemplatesResponse ==
  [status |-> 200,
   fields |-> {"success", "message", "migrated", "templatesCount"},
   error |-> "none", details |-> NoDetails,
   migrated |-> <<>>, errors |-> <<>>, templatesCount |-> 0, totalAttempted |-> 0]

\* Variant of Return: the handler ends without a response.
ReturnNothing(r) ==
  /\ pc' = "done"
  /\ UNCHANGED responses

\* return NextResponse.json(...)
Return(r) ==
  /\ responses' = Append(responses, r)
  /\ pc' = "done"

\* The catch of the outermost try (lines 422-428).
UnexpectedResponse(message) ==
  ErrorResponse(500, "Failed to migrate email templates", message)

----------------------------------------------------------------------------
(* Initial states *)

InitRun ==
  /\ pc = "start"
  /\ hubspotAccessToken = Absent
  /\ sfmcAccessToken = Absent
  /\ contentBuilderFolderId = Absent
  /\ foldersResponse = <<>>
  /\ rootFolderId = Absent
  /\ fetchErrors = <<>>
  /\ hubspotTemplates = <<>>
  /\ templateToMigrate = <<>>
  /\ idx = 0
  /\ results = <<>>
  /\ errors = <<>>
  /\ calls = <<>>
  /\ responses = <<>>

\* Nothing is known of the destination's folders before a run lists them, and
\* no run has completed.
InitWorld ==
  /\ sfmcFolders = <<>>
  /\ history = <<>>

Init ==
  /\ req \in Requests
  /\ account = AccountItems
  /\ InitRun
  /\ InitWorld

----------------------------------------------------------------------------
(* Validation and credential resolution, lines 16-94 *)

\* await request.json() and the destructuring of the body (lines 13-14), whose
\* exceptions reach the outermost catch, then if (!userId), lines 16-21
ValidateRequest ==
  /\ pc = "start"
  /\ IF req.body = "unparsable"
       THEN Return(UnexpectedResponse("Unexpected token in JSON"))
       ELSE IF req.body = "null"
       THEN Return(UnexpectedResponse("Cannot destructure property 'userId' of 'body' as it is null."))
       ELSE IF ~req.userId
       THEN Return(ErrorResponse(400, "User ID is required", NoDetails))
       ELSE pc' = "hubspot" /\ UNCHANGED responses
  /\ UNCHANGED <<req, account, sfmcFolders, history, hubspotAccessToken, sfmcAccessToken, contentBuilderFolderId,
                 foldersResponse, rootFolderId, fetchErrors, hubspotTemplates,
                 templateToMigrate, idx, results, errors, calls>>

\* Variant of HasInlineHubspotToken: a request with custom templates needs no source token.
HubspotTokenNotNeeded(r) == r.hubspotToken # Absent \/ Len(r.customTemplates) > 0

\* if (hubspotToken), line 27
HasInlineHubspotToken(r) == r.hubspotToken # Absent

\* lines 27-29
UseHubspotToken ==
  /\ pc = "hubspot"
  /\ HasInlineHubspotToken(req)
  /\ hubspotAccessToken' = req.hubspotToken
  /\ pc' = "sfmc"
  /\ UNCHANGED <<req, account, sfmcFolders, history, sfmcAccessToken, contentBuilderFolderId, foldersResponse,
                 rootFolderId, fetchErrors, hubspotTemplates, templateToMigrate, idx,
                 results, errors, calls, responses>>

\* Outcomes of getIntegrationTokens: a row, no row, or a thrown error.
StoreOutcomes == {"returned", "absent", "threw"}

\* lines 43-48
HubspotStoreErrorResponse ==
  ErrorResponse(500, "Database error retrieving HubSpot tokens.", NoDetails)

\* lines 30-50
LookupHubspotTokens ==
  /\ pc = "hubspot"
  /\ ~HasInlineHubspotToken(req)
  /\ \E outcome \in StoreOutcomes :
       /\ Log(Call("getIntegrationTokens", 0, "hubspot", Absent, Absent, Absent, outcome))
       /\ CASE outcome = "returned" ->
                /\ hubspotAccessToken' = "storedHubspotToken"
                /\ pc' = "sfmc"
                /\ UNCHANGED responses
           [] outcome = "absent" ->
                /\ Return(ErrorResponse(400, "Missing HubSpot token. Please reconnect to HubSpot.", NoDetails))
                /\ UNCHANGED hubspotAccessToken
           [] outcome = "threw" ->
                /\ Return(HubspotStoreErrorResponse)
                /\ UNCHANGED hubspotAccessToken
  /\ UNCHANGED <<req, account, sfmcFolders, history, sfmcAccessToken, contentBuilderFolderId, foldersResponse,
                 rootFolderId, fetchErrors, hubspotTemplates, templateToMigrate, idx,
                 results, errors>>

\* Variant of HasInlineSfmcCredentials: only the presence of sfmcCredentials is tested.
HasSomeSfmcCredentials(r) == r.sfmcCredentials # Absent

\* sfmcCredentials && clientId && clientSecret && subdomain, line 56
HasInlineSfmcCredentials(r) == r.sfmcCredentials = "full"

\* lines 56-73
ExchangeSfmcCredentials ==
  /\ pc = "sfmc"
  /\ HasInlineSfmcCredentials(req)
  /\ \E outcome \in {"returned", "threw"} :
       /\ Log(Call("getSFMCToken", 0, "sfmc", Absent, Absent, Absent, outcome))
       /\ IF outcome = "returned"
            THEN /\ sfmcAccessToken' = "exchangedSfmcToken"
                 /\ pc' = "folder"
                 /\ UNCHANGED responses
            ELSE /\ Return(ErrorResponse(400, "Failed to authenticate with SFMC using provided credentials.", NoDetails))
                 /\ UNCHANGED sfmcAccessToken
  /\ UNCHANGED <<req, account, sfmcFolders, history, hubspotAccessToken, contentBuilderFolderId, foldersResponse,
                 rootFolderId, fetchErrors, hubspotTemplates, templateToMigrate, idx,
                 results, errors>>

\* lines 74-94
LookupSfmcTokens ==
  /\ pc = "sfmc"
  /\ ~HasInlineSfmcCredentials(req)
  /\ \E outcome \in StoreOutcomes :
       /\ Log(Call("getIntegrationTokens", 0, "sfmc", Absent, Absent, Absent, outcome))
       /\ CASE outcome = "returned" ->
                /\ sfmcAccessToken' = "storedSfmcToken"
                /\ pc' = "folder"
                /\ UNCHANGED responses
           [] outcome = "absent" ->
                /\ Return(ErrorResponse(400, "Missing SFMC credentials. Please connect SFMC.", NoDetails))
                /\ UNCHANGED sfmcAccessToken
           [] outcome = "threw" ->
                /\ Return(ErrorResponse(400, "No SFMC credentials provided or found in database.", NoDetails))
                /\ UNCHANGED sfmcAccessToken
  /\ UNCHANGED <<req, account, sfmcFolders, history, hubspotAccessToken, contentBuilderFolderId, foldersResponse,
                 rootFolderId, fetchErrors, hubspotTemplates, templateToMigrate, idx,
                 results, errors>>

----------------------------------------------------------------------------
(* Folder resolution, lines 96-150 *)

\* Array.prototype.find returns the first element that satisfies its predicate:
\* the least of the matching indices, 0 if there is none.
FirstIndex(matching) ==
  IF matching = {} THEN 0
  ELSE CHOOSE i \in matching : \A j \in matching : i <= j

\* Variant of FindContentBuilderFolder: the name is compared without regard to case.
FindContentBuilderFolderAnyCase(items) ==
  FirstIndex({i \in 1..Len(items) : items[i].name \in {"Content Builder", "content builder"}})

\* lines 112-114
FindContentBuilderFolder(items) ==
  FirstIndex({i \in 1..Len(items) : items[i].name = "Content Builder"})

\* Variant of FindHubspotFolder: the parent of the folder is not compared.
FindHubspotFolderAnywhere(items, rootId) ==
  FirstIndex({i \in 1..Len(items) : items[i].name = "HubSpot Templates"})

\* lines 121-124
FindHubspotFolder(items, rootId) ==
  FirstIndex({i \in 1..Len(items) :
                items[i].name = "HubSpot Templates" /\ items[i].parentId = rootId})

\* The catch of lines 143-149.
FolderErrorResponse ==
  ErrorResponse(400, "Failed to find or create a folder in SFMC. Please provide a valid folderId.", NoDetails)

\* if (folderId), lines 100-102
UseFolderId ==
  /\ pc = "folder"
  /\ req.folderId # Absent
  /\ contentBuilderFolderId' = req.folderId
  /\ pc' = "mode"
  /\ UNCHANGED <<req, account, sfmcFolders, history, hubspotAccessToken, sfmcAccessToken, foldersResponse,
                 rootFolderId, fetchErrors, hubspotTemplates, templateToMigrate, idx,
                 results, errors, calls, responses>>

\* The lists getSFMCFolders can return: any list of FolderLists on the first
\* reading of the destination, the list the destination holds afterwards.
KnownFolderLists == IF sfmcFolders = <<>> THEN FolderLists ELSE {sfmcFolders[1]}

\* lines 104-129: getSFMCFolders and the two searches of its items
ListFolders ==
  /\ pc = "folder"
  /\ req.folderId = Absent
  /\ \/ \* getSFMCFolders throws
        /\ Log(Call("getSFMCFolders", 0, Absent, Absent, sfmcAccessToken, Absent, "threw"))
        /\ Return(FolderErrorResponse)
        /\ UNCHANGED <<contentBuilderFolderId, foldersResponse, rootFolderId, sfmcFolders>>
     \/ \E items \in KnownFolderLists :
          LET root == FindContentBuilderFolder(items) IN
          /\ Log(Call("getSFMCFolders", 0, Absent, Absent, sfmcAccessToken, Absent, "returned"))
          /\ foldersResponse' = items
          /\ sfmcFolders' = <<items>>
          /\ IF root = 0
               THEN \* throw new Error('Content Builder folder not found'), line 117
                    /\ Return(FolderErrorResponse)
                    /\ UNCHANGED <<contentBuilderFolderId, rootFolderId>>
               ELSE LET child == FindHubspotFolder(items, items[root].id) IN
                    /\ rootFolderId' = items[root].id
                    /\ UNCHANGED responses
                    /\ IF child # 0
                         THEN /\ contentBuilderFolderId' = items[child].id
                              /\ pc' = "mode"
                         ELSE /\ pc' = "createFolder"
                              /\ UNCHANGED contentBuilderFolderId
  /\ UNCHANGED <<req, account, history, hubspotAccessToken, sfmcAccessToken,
                 fetchErrors, hubspotTemplates, templateToMigrate, idx, results, errors>>

\* newFolder.id: the identifier the destination gives the folder it creates.
NewFolderId == "f5"

\* Variant of CreateFolder: a failed creation is not fatal, the run goes on
\* without a folder id.
CreateFolderLenient ==
  /\ pc = "createFolder"
  /\ \E outcome \in {"returned", "threw"} :
       /\ Log(Call("createSFMCFolder", 0, "HubSpot Templates", rootFolderId, sfmcAccessToken,
                   Absent, outcome))
       /\ IF outcome = "returned"
            THEN /\ contentBuilderFolderId' = NewFolderId
                 /\ sfmcFolders' = <<Append(sfmcFolders[1],
                                            Folder(NewFolderId, "HubSpot Templates", rootFolderId))>>
            ELSE UNCHANGED <<contentBuilderFolderId, sfmcFolders>>
       /\ pc' = "mode"
       /\ UNCHANGED responses
  /\ UNCHANGED <<req, account, history, hubspotAccessToken, sfmcAccessToken, foldersResponse,
                 rootFolderId, fetchErrors, hubspotTemplates, templateToMigrate, idx,
                 results, errors>>

\* lines 131-141; a folder the destination created is in its folder list from then on
CreateFolder ==
  /\ pc = "createFolder"
  /\ \E outcome \in {"returned", "threw"} :
       /\ Log(Call("createSFMCFolder", 0, "HubSpot Templates", rootFolderId, sfmcAccessToken,
                   Absent, outcome))
       /\ IF outcome = "returned"
            THEN /\ contentBuilderFolderId' = NewFolderId
                 /\ sfmcFolders' = <<Append(sfmcFolders[1],
                                            Folder(NewFolderId, "HubSpot Templates", rootFolderId))>>
                 /\ pc' = "mode"
                 /\ UNCHANGED responses
            ELSE /\ Return(FolderErrorResponse)
                 /\ UNCHANGED <<contentBuilderFolderId, sfmcFolders>>
  /\ UNCHANGED <<req, account, history, hubspotAccessToken, sfmcAccessToken, foldersResponse,
                 rootFolderId, fetchErrors, hubspotTemplates, templateToMigrate, idx,
                 results, errors>>

----------------------------------------------------------------------------
(* Per-item bookkeeping shared by the two loops *)

\* What can happen to one template inside the try of a loop body:
\* convertHubspotTemplate throws, createEmailTemplate throws, or both return.
ItemOutcomes == {"migrated", "convertThrows", "createThrows"}

\* Variant of ItemCalls: an asset creation that throws is tried a second time.
ItemCallsRetry(pos, template, field, outcome) ==
  IF outcome = "convertThrows"
    THEN <<Call("convertHubspotTemplate", pos, template.name, Absent, Absent, field, "threw")>>
    ELSE IF outcome = "createThrows"
    THEN <<Call("convertHubspotTemplate", pos, template.name, Absent, Absent, field, "returned"),
           Call("createEmailTemplate", pos, template.name, contentBuilderFolderId,
                sfmcAccessToken, field, "threw"),
           Call("createEmailTemplate", pos, template.name, contentBuilderFolderId,
                sfmcAccessToken, field, "threw")>>
    ELSE <<Call("convertHubspotTemplate", pos, template.name, Absent, Absent, field, "returned"),
           Call("createEmailTemplate", pos, template.name, contentBuilderFolderId,
                sfmcAccessToken, field, "returned")>>

\* Variant of ItemCalls: the asset creation is left out when an earlier run
\* created an asset of that name in the folder.
ItemCallsOnce(pos, template, field, outcome) ==
  IF outcome = "convertThrows"
    THEN <<Call("convertHubspotTemplate", pos, template.name, Absent, Absent, field, "threw")>>
    ELSE IF \E h \in 1..Len(history) : \E c \in 1..Len(history[h].calls) :
              /\ history[h].calls[c].op = "createEmailTemplate"
              /\ history[h].calls[c].name = template.name
              /\ history[h].calls[c].folder = contentBuilderFolderId
              /\ history[h].calls[c].result = "returned"
    THEN <<Call("convertHubspotTemplate", pos, template.name, Absent, Absent, field, "returned")>>
    ELSE <<Call("convertHubspotTemplate", pos, template.name, Absent, Absent, field, "returned"),
           Call("createEmailTemplate", pos, template.name, contentBuilderFolderId,
                sfmcAccessToken, field,
                IF outcome = "createThrows" THEN "threw" ELSE "returned")>>

\* The calls made for one template, in order: the conversion, and the asset
\* creation unless the conversion threw (lines 166-185, 371-390).
ItemCalls(pos, template, field, outcome) ==
  IF outcome = "convertThrows"
    THEN <<Call("convertHubspotTemplate", pos, template.name, Absent, Absent, field, "threw")>>
    ELSE <<Call("convertHubspotTemplate", pos, template.name, Absent, Absent, field, "returned"),
           Call("createEmailTemplate", pos, template.name, contentBuilderFolderId,
                sfmcAccessToken, field,
                IF outcome = "createThrows" THEN "threw" ELSE "returned")>>

ResultEntry(pos, id, template) ==
  [pos |-> pos, id |-> id, name |-> template.name, status |-> "success", error |-> "none"]

ErrorEntry(pos, id, template, outcome) ==
  [pos |-> pos, id |-> id, name |-> template.name, status |-> "error", error |-> outcome]

\* results.push(...), lines 187-193 and 392-398
OnItemMigrated(entry) ==
  /\ results' = Append(results, entry)
  /\ idx' = idx + 1
  /\ UNCHANGED <<errors, pc, responses>>

\* The catch of the loop body, lines 196-204 and 401-409
OnItemError(entry) ==
  /\ errors' = Append(errors, entry)
  /\ idx' = idx + 1
  /\ UNCHANGED <<results, pc, responses>>

\* error.message of the TypeError thrown by template.name when template is null.
NullElementMessage == "Cannot read properties of null (reading 'name')"

\* A null element of the list: template.name throws in the try (lines 163, 331),
\* the catch reads template.name again and throws before errors.push (lines
\* 197, 402), and the exception leaves the loop for the outermost catch.
OnNullElement ==
  /\ Return(UnexpectedResponse(NullElementMessage))
  /\ UNCHANGED <<idx, results, errors, calls>>

----------------------------------------------------------------------------
(* CustomMode, lines 152-216 *)

\* Variant of IsCustomMode: a single custom template does not select CustomMode.
IsCustomModeSeveral(r) == Len(r.customTemplates) > 1

\* customTemplates && Array.isArray(customTemplates) && customTemplates.length > 0, line 153
IsCustomMode(r) == Len(r.customTemplates) > 0

\* The branch of line 153, taken once the folder is resolved.
ChooseMode ==
  /\ pc = "mode"
  /\ pc' = IF IsCustomMode(req) THEN "custom" ELSE "client"
  /\ UNCHANGED <<req, account, sfmcFolders, history, hubspotAccessToken, sfmcAccessToken, contentBuilderFolderId,
                 foldersResponse, rootFolderId, fetchErrors, hubspotTemplates,
                 templateToMigrate, idx, results, errors, calls, responses>>

\* template.content || template.html || `<p>Template: ${template.name}</p>`, line 168
CustomSource(template) ==
  IF template.content # Absent THEN "content"
  ELSE IF template.html # Absent THEN "html"
  ELSE "placeholder"

\* template.id || `custom-${Date.now()}`, lines 188 and 199
CustomId(template) == IF template.id # Absent THEN template.id ELSE "custom-now"

\* One iteration of the loop of lines 161-205
ProcessCustomTemplate ==
  /\ pc = "custom"
  /\ idx < Len(req.customTemplates)
  /\ LET pos == idx + 1
         template == req.customTemplates[pos]
     IN IF IsNull(template)
          THEN OnNullElement
          ELSE \E outcome \in ItemOutcomes :
                 /\ calls' = calls \o ItemCalls(pos, template, CustomSource(template), outcome)
                 /\ IF outcome = "migrated"
                      THEN OnItemMigrated(ResultEntry(pos, CustomId(template), template))
                      ELSE OnItemError(ErrorEntry(pos, CustomId(template), template, outcome))
  /\ UNCHANGED <<req, account, sfmcFolders, history, hubspotAccessToken, sfmcAccessToken, contentBuilderFolderId,
                 foldersResponse, rootFolderId, fetchErrors, hubspotTemplates,
                 templateToMigrate>>

\* lines 208-215
ReturnCustomSummary ==
  /\ pc = "custom"
  /\ idx = Len(req.customTemplates)
  /\ Return(SummaryResponse(results, errors, Len(req.customTemplates)))
  /\ UNCHANGED <<req, account, sfmcFolders, history, hubspotAccessToken, sfmcAccessToken, contentBuilderFolderId,
                 foldersResponse, rootFolderId, fetchErrors, hubspotTemplates,
                 templateToMigrate, idx, results, errors, calls>>

----------------------------------------------------------------------------
(* Source Template Fetcher, lines 218-312 *)

\* createHubspotClient(hubspotAccessToken), line 219; an exception here is
\* caught by the outermost catch.
CreateClient ==
  /\ pc = "client"
  /\ \E outcome \in {"returned", "threw"} :
       /\ Log(Call("createHubspotClient", 0, Absent, Absent, hubspotAccessToken, Absent, outcome))
       /\ IF outcome = "returned"
            THEN pc' = "fetch" /\ UNCHANGED responses
            ELSE Return(UnexpectedResponse("createHubspotClient failed"))
  /\ UNCHANGED <<req, account, sfmcFolders, history, hubspotAccessToken, sfmcAccessToken, contentBuilderFolderId,
                 foldersResponse, rootFolderId, fetchErrors, hubspotTemplates,
                 templateToMigrate, idx, results, errors>>

\* The endpoint the nested try blocks request after the failures caught so far:
\* each catch block holds the request of the next endpoint (lines 239-283).
NextEndpoint(failed) == Len(failed) + 1

\* Variant of SurfacedError: the error of the first endpoint is kept.
SurfacedFirstError(failed) == failed[1]

\* error.response?.data || error.message of the error caught at line 286,
\* which is the error thrown by the innermost request.
SurfacedError(failed) == failed[Len(failed)]

\* lines 295-301
FetchErrorResponse(details) ==
  ErrorResponse(500, "Failed to fetch templates from HubSpot API. Please check your token and permissions.", details)

\* emailTemplates.slice(0, limit), line 319: a negative limit counts from the
\* end of the list.
Min(a, b) == IF a < b THEN a ELSE b
Max(a, b) == IF a > b THEN a ELSE b
SliceEnd(list, limit) ==
  IF limit < 0 THEN Max(Len(list) + limit, 0) ELSE Min(limit, Len(list))

\* Variant of Slice: the element at index limit is kept too.
SliceInclusive(list, limit) == SubSeq(list, 1, Min(SliceEnd(list, limit) + 1, Len(list)))

Slice(list, limit) == SubSeq(list, 1, SliceEnd(list, limit))

\* One axios.get of lines 229-283 with the handling of its result
\* (lines 237, 252, 267, 281, 286-302, 305-319).
RequestEndpoint ==
  /\ pc = "fetch"
  /\ LET k == NextEndpoint(fetchErrors) IN
     \/ \* the request fails (non-2xx, network error), or reading the envelope throws
        /\ Log(Call("axios.get", k, Endpoints[k], Absent, hubspotAccessToken, Absent, "threw"))
        /\ fetchErrors' = Append(fetchErrors, Endpoints[k])
        /\ IF k = Len(Endpoints)
             THEN Return(FetchErrorResponse(SurfacedError(fetchErrors')))
             ELSE UNCHANGED <<pc, responses>>
        /\ UNCHANGED <<hubspotTemplates, templateToMigrate>>
     \/ \* the request succeeds with a list
        \E list \in SeqsUpTo(account, MaxTemplates) :
          /\ Log(Call("axios.get", k, Endpoints[k], Absent, hubspotAccessToken, Absent, "returned"))
          /\ hubspotTemplates' = list
          /\ IF Len(list) = 0
               THEN Return(NoTemplatesResponse) /\ UNCHANGED templateToMigrate
               ELSE /\ templateToMigrate' = Slice(list, req.limit)
                    /\ pc' = "iterate"
                    /\ UNCHANGED responses
          /\ UNCHANGED fetchErrors
     \/ \* the request succeeds with a payload that is no array (an object, a
        \* number, true): response.data.objects || [], response.data.results || []
        \* and response.data || [] are assigned without an array test (lines 237,
        \* 252, 267, 281), .length is undefined, not 0, and .slice throws at line
        \* 319 into the outermost catch; the call is logged with the kind of its
        \* payload and the model's hubspotTemplates keeps no list
        /\ Log(Call("axios.get", k, Endpoints[k], Absent, hubspotAccessToken, Object, "returned"))
        /\ Return(UnexpectedResponse("emailTemplates.slice is not a function"))
        /\ UNCHANGED <<fetchErrors, hubspotTemplates, templateToMigrate>>
  /\ UNCHANGED <<req, account, sfmcFolders, history, hubspotAccessToken, sfmcAccessToken, contentBuilderFolderId,
                 foldersResponse, rootFolderId, idx, results, errors>>

----------------------------------------------------------------------------
(* FetchMode loop, lines 329-420 *)

\* possibleContentProperties, line 354
PossibleContentProperties == <<"body", "htmlContent", "htmlBody", "design", "template">>

\* Variant of LooksLikeHtml: any string is accepted.
LooksLikeString(value) == value # Absent /\ value \in {Text, Html}

\* template[prop] && typeof template[prop] === 'string' && template[prop].includes('<'), line 356
LooksLikeHtml(value) == value # Absent /\ value \in {Text, Html} /\ value = Html

\* The loop of lines 355-361: the first property that looks like HTML, "none" if none.
RECURSIVE ScanProperties(_, _)
ScanProperties(template, i) ==
  IF i > Len(PossibleContentProperties) THEN "none"
  ELSE IF LooksLikeHtml(template[PossibleContentProperties[i]])
         THEN PossibleContentProperties[i]
  ELSE ScanProperties(template, i + 1)

\* Variant of ResolveContent: html is looked at before content.
ResolveContentHtmlFirst(template) ==
  IF template.source # Absent THEN "source"
  ELSE IF template.html # Absent THEN "html"
  ELSE IF template.content # Absent THEN "content"
  ELSE ScanProperties(template, 1)

\* lines 334-362: the field whose value becomes templateContent, "none" when
\* templateContent stays ''.
ResolveContent(template) ==
  IF template.source # Absent THEN "source"
  ELSE IF template.content # Absent THEN "content"
  ELSE IF template.html # Absent THEN "html"
  ELSE ScanProperties(template, 1)

\* if (!templateContent) continue, lines 364-368
IsSkipped(template) == ResolveContent(template) = "none"

\* One iteration of the loop of lines 329-410
ProcessTemplate ==
  /\ pc = "iterate"
  /\ idx < Len(templateToMigrate)
  /\ LET pos == idx + 1
         template == templateToMigrate[pos]
     IN IF IsNull(template)
          THEN OnNullElement
          ELSE IF IsSkipped(template)
          THEN /\ idx' = idx + 1
               /\ UNCHANGED <<results, errors, calls, pc, responses>>
          ELSE \E outcome \in ItemOutcomes :
                 /\ calls' = calls \o ItemCalls(pos, template, ResolveContent(template), outcome)
                 /\ IF outcome = "migrated"
                      THEN OnItemMigrated(ResultEntry(pos, template.id, template))
                      ELSE OnItemError(ErrorEntry(pos, template.id, template, outcome))
  /\ UNCHANGED <<req, account, sfmcFolders, history, hubspotAccessToken, sfmcAccessToken, contentBuilderFolderId,
                 foldersResponse, rootFolderId, fetchErrors, hubspotTemplates,
                 templateToMigrate>>

\* lines 413-420
ReturnSummary ==
  /\ pc = "iterate"
  /\ idx = Len(templateToMigrate)
  /\ Return(SummaryResponse(results, errors, Len(templateToMigrate)))
  /\ UNCHANGED <<req, account, sfmcFolders, history, hubspotAccessToken, sfmcAccessToken, contentBuilderFolderId,
                 foldersResponse, rootFolderId, fetchErrors, hubspotTemplates,
                 templateToMigrate, idx, results, errors, calls>>

----------------------------------------------------------------------------
(* Specification *)

Next ==
  \/ ValidateRequest
  \/ UseHubspotToken
  \/ LookupHubspotTokens
  \/ ExchangeSfmcCredentials
  \/ LookupSfmcTokens
  \/ UseFolderId
  \/ ListFolders
  \/ CreateFolder
  \/ ChooseMode
  \/ ProcessCustomTemplate
  \/ ReturnCustomSummary
  \/ CreateClient
  \/ RequestEndpoint
  \/ ProcessTemplate
  \/ ReturnSummary

\* Runs of the handler over every request of Requests.
Spec == Init /\ [][Next]_vars

\* The same runs when every collaborator call eventually returns or throws:
\* the handler is then never stopped at an await, so a step that is possible
\* is eventually taken.
SpecLive == Init /\ [][Next]_vars /\ WF_vars(Next)

\* A request with inline credentials and a folder id, so that the run is
\* decided by the templates the source returns.
MarkupRequest ==
  [body |-> "object", userId |-> TRUE, hubspotToken |-> "inlineHubspotToken", sfmcCredentials |-> "full",
   limit |-> 1, folderId |-> "folderGiven", customTemplates |-> <<>>]

\* Runs over every combination of template fields: the source account holds
\* one template of AllTemplates (or, for the other requests, of SampleTemplates).
InitMarkup ==
  /\ \/ req = MarkupRequest /\ account \in {{t} : t \in AllTemplates}
     \/ req \in Requests /\ account \in {{t} : t \in AccountItems}
  /\ InitRun
  /\ InitWorld

SpecMarkup == InitMarkup /\ [][Next]_vars

\* POST is invoked again with the same body after a run has ended.  The
\* handler keeps nothing between two runs: every local starts afresh, and only
\* the destination remembers what the earlier run did.
Rerun ==
  /\ pc = "done"
  /\ history = <<>>
  /\ history' = Append(history, [calls |-> calls, responses |-> responses,
                                  templateToMigrate |-> templateToMigrate,
                                  contentBuilderFolderId |-> contentBuilderFolderId])
  /\ pc' = "start"
  /\ hubspotAccessToken' = Absent
  /\ sfmcAccessToken' = Absent
  /\ contentBuilderFolderId' = Absent
  /\ foldersResponse' = <<>>
  /\ rootFolderId' = Absent
  /\ fetchErrors' = <<>>
  /\ hubspotTemplates' = <<>>
  /\ templateToMigrate' = <<>>
  /\ idx' = 0
  /\ results' = <<>>
  /\ errors' = <<>>
  /\ calls' = <<>>
  /\ responses' = <<>>
  /\ UNCHANGED <<req, account, sfmcFolders>>

NextRerun == Next \/ Rerun

\* The requests that are run twice: a user id, limit 1, at most one custom template.
RerunRequests ==
  {r \in Requests : r.userId /\ r.limit = 1 /\ Len(r.customTemplates) <= 1}

\* The source account of the runs of SpecRerun: a template with markup and one without.
RerunTemplates == {t \in SampleTemplates : t.name \in {"cms", "empty"}}

InitRerun ==
  /\ req \in RerunRequests
  /\ account = RerunTemplates
  /\ InitRun
  /\ InitWorld

\* Two runs of the same request in sequence.
SpecRerun == InitRerun /\ [][NextRerun]_vars

----------------------------------------------------------------------------
(* Vocabulary of the properties *)

CallIndices(op) == {i \in 1..Len(calls) : calls[i].op = op}

IsGet(c) == c.op = "axios.get"
Gets(cs) == SelectSeq(cs, IsGet)

AssetCreates == CallIndices("createEmailTemplate")

\* The list the run iterates over: customTemplates when it is a non-empty
\* array, the truncated fetched list otherwise.
CustomRun == Len(req.customTemplates) > 0
IteratedList == IF CustomRun THEN req.customTemplates ELSE templateToMigrate

\* A success summary written after a loop (it carries totalAttempted).
IsSummary(r) == r.status = 200 /\ "totalAttempted" \in r.fields

\* An error response: {error, details?} and nothing else.
IsErrorShape(r) == "error" \in r.fields /\ r.fields \subseteq {"error", "details"}

Responded == pc = "done" /\ Len(responses) = 1

----------------------------------------------------------------------------
(* C1 *)

\* C1: in every success response written after iterating over a template
\* list, templatesCount = length(migrated) and length(migrated) +
\* length(errors) = totalAttempted (errors counting 0 when omitted).
C1_SummaryCountsAddUp ==
  \A i \in 1..Len(responses) :
    LET r == responses[i] IN
    IsSummary(r) =>
      /\ r.templatesCount = Len(r.migrated)
      /\ Len(r.migrated) + (IF "errors" \in r.fields THEN Len(r.errors) ELSE 0)
           = r.totalAttempted

----------------------------------------------------------------------------
(* C2 *)

FetchFailureMessage ==
  "Failed to fetch templates from HubSpot API. Please check your token and permissions."

\* A step that requests a source endpoint requests exactly one, the next in
\* the fixed order, and every endpoint requested before it has failed.
C2_RequestStep ==
  LET before == Gets(calls)
      after == Gets(calls')
      n == Len(before)
  IN Len(after) > n =>
       /\ Len(after) = n + 1
       /\ n + 1 <= Len(Endpoints)
       /\ after[n + 1].pos = n + 1
       /\ after[n + 1].name = Endpoints[n + 1]
       /\ \A j \in 1..n : before[j].result = "threw"

\* The fetch fails exactly when all four endpoints failed, and then the 500
\* response carries the fourth endpoint's error.
C2_FetchFailure ==
  LET g == Gets(calls)
      allFailed == Len(g) = Len(Endpoints) /\ \A j \in 1..Len(g) : g[j].result = "threw"
  IN /\ allFailed =>
          /\ Responded
          /\ responses[1].error = FetchFailureMessage
          /\ responses[1].status = 500
          /\ responses[1].details = Endpoints[Len(Endpoints)]
     /\ \A i \in 1..Len(responses) :
          responses[i].error = FetchFailureMessage => allFailed

\* C2: the four source endpoints are requested in the fixed order, endpoint
\* k+1 only after endpoint k failed and none after a success; the fetch fails
\* only if all four failed, with the fourth endpoint's error as details.
C2_EndpointFallback == [][C2_RequestStep]_vars /\ []C2_FetchFailure

C2_Witness ==
  /\ Responded
  /\ responses[1].error = FetchFailureMessage
  /\ Len(Gets(calls)) = Len(Endpoints)

----------------------------------------------------------------------------
(* C3 *)

\* Conversion or asset creation threw for the template at position i.
ItemThrew(i) ==
  \E c \in 1..Len(calls) :
    /\ calls[c].op \in {"convertHubspotTemplate", "createEmailTemplate"}
    /\ calls[c].pos = i
    /\ calls[c].result = "threw"

\* No markup field matches: source, content and html are empty and none of
\* the alternate fields is a string containing '<'.
HasNoMarkup(t) ==
  /\ t.source = Absent /\ t.content = Absent /\ t.html = Absent
  /\ \A f \in {"body", "htmlContent", "htmlBody", "design", "template"} : t[f] # Html

\* The template at position j went through the loop body: its conversion was
\* attempted, and its asset creation unless the conversion threw (a fetched
\* template without markup is passed over).
ItemProcessed(j) ==
  \/ ~CustomRun /\ HasNoMarkup(IteratedList[j])
  \/ \E c \in CallIndices("convertHubspotTemplate") :
       /\ calls[c].pos = j
       /\ calls[c].result = "returned" =>
            \E a \in AssetCreates : calls[a].pos = j /\ a = c + 1

\* C3: when conversion or asset creation throws for the template at position
\* i, the error is recorded as exactly one errors entry for it, the loop goes
\* on to every later template, and the run ends with the 200 summary.
C3_ItemFailureIsolated ==
  \A i \in 1..Len(IteratedList) :
    ItemThrew(i) =>
      /\ Cardinality({e \in 1..Len(errors) : errors[e].pos = i}) = 1
      /\ \A m \in 1..Len(results) : results[m].pos # i
      /\ pc \in {"custom", "iterate", "done"}
      /\ pc # "done" => ENABLED (ProcessCustomTemplate \/ ReturnCustomSummary
                                   \/ ProcessTemplate \/ ReturnSummary)
      /\ pc = "done" =>
           /\ Len(responses) = 1
           /\ IsSummary(responses[1])
           /\ \E e \in 1..Len(responses[1].errors) : responses[1].errors[e].pos = i
           /\ \A j \in (i + 1)..Len(IteratedList) : ItemProcessed(j)

----------------------------------------------------------------------------
(* C4 *)

\* C4: a run whose customTemplates is a non-empty array requests no source
\* endpoint at all.
C4_CustomModeNeverFetches ==
  CustomRun => Len(Gets(calls)) = 0

C4_Witness ==
  /\ CustomRun
  /\ Responded
  /\ IsSummary(responses[1])
  /\ Len(responses[1].errors) > 0
  /\ Len(responses[1].migrated) > 0

----------------------------------------------------------------------------
(* C5 *)

FolderListCalls == CallIndices("getSFMCFolders")
FolderCreateCalls == CallIndices("createSFMCFolder")

\* The listed folders hold the root 'Content Builder' and no 'HubSpot
\* Templates' child of it.
RootWithoutChild ==
  LET roots == {i \in 1..Len(foldersResponse) : foldersResponse[i].name = "Content Builder"}
  IN /\ roots # {}
     /\ \A i \in 1..Len(foldersResponse) :
          ~(/\ foldersResponse[i].name = "HubSpot Templates"
            /\ \E r \in roots : foldersResponse[i].parentId = foldersResponse[r].id)

\* C5: the destination folder is resolved once, before any asset creation:
\* at most one folder-list and one folder-create call, both before the first
\* asset-create call, and every asset-create call carries the same folder id
\* (the created folder's, made under the root, when the list holds the root
\* and no 'HubSpot Templates' child of it).
C5_FolderResolvedOnce ==
  /\ Cardinality(FolderListCalls) <= 1
  /\ Cardinality(FolderCreateCalls) <= 1
  /\ \A f \in FolderListCalls \cup FolderCreateCalls : \A a \in AssetCreates : f < a
  /\ \A a \in AssetCreates : \A b \in AssetCreates : calls[a].folder = calls[b].folder
  /\ req.folderId = Absent /\ RootWithoutChild =>
       \A a \in AssetCreates :
         /\ calls[a].folder = NewFolderId
         /\ \E c \in FolderCreateCalls :
              /\ calls[c].result = "returned"
              /\ \E r \in 1..Len(foldersResponse) :
                   /\ foldersResponse[r].name = "Content Builder"
                   /\ calls[c].folder = foldersResponse[r].id

C5_Witness ==
  /\ Responded
  /\ req.folderId = Absent
  /\ RootWithoutChild
  /\ Len(foldersResponse) > 1
  /\ Cardinality(AssetCreates) >= 2

----------------------------------------------------------------------------
(* C6 *)

\* A run-level failure has happened: userId is missing (and validation has
\* run), a credential lookup or exchange failed, folder resolution failed, or
\* all four source endpoints failed.
RunLevelFailure ==
  \/ ~req.userId /\ pc # "start"
  \/ \E c \in 1..Len(calls) :
       \/ calls[c].op = "getIntegrationTokens" /\ calls[c].result \in {"absent", "threw"}
       \/ calls[c].op = "getSFMCToken" /\ calls[c].result = "threw"
       \/ calls[c].op = "getSFMCFolders" /\ calls[c].result = "threw"
       \/ calls[c].op = "createSFMCFolder" /\ calls[c].result = "threw"
  \/ /\ \E c \in FolderListCalls : calls[c].result = "returned"
     /\ \A i \in 1..Len(foldersResponse) : foldersResponse[i].name # "Content Builder"
  \/ /\ Len(Gets(calls)) = Len(Endpoints)
     /\ \A j \in 1..Len(Endpoints) : Gets(calls)[j].result = "threw"

\* C6: a run-level failure ends the run at once with a single error response
\* {error, details?} without summary, and no asset is created in that run.
C6_RunLevelErrorsAbort ==
  RunLevelFailure =>
    /\ pc = "done"
    /\ Len(responses) = 1
    /\ IsErrorShape(responses[1])
    /\ responses[1].status \in {400, 500}
    /\ AssetCreates = {}
    /\ ~ENABLED Next

C6_Witness ==
  /\ Responded
  /\ \E c \in FolderCreateCalls : calls[c].result = "threw"

----------------------------------------------------------------------------
(* C7 *)

\* The markup fields in their priority order.
MarkupPriority ==
  <<"source", "content", "html", "body", "htmlContent", "htmlBody", "design", "template">>

\* source, content and html match when non-empty; an alternate field matches
\* only when its value is a string containing '<'.
FieldMatches(t, f) ==
  IF f \in {"source", "content", "html"} THEN t[f] # Absent ELSE t[f] = Html

\* f is the first field of the priority order that matches in t.
IsFirstMatch(t, f) ==
  \E k \in 1..Len(MarkupPriority) :
    /\ MarkupPriority[k] = f
    /\ FieldMatches(t, f)
    /\ \A j \in 1..(k - 1) : ~FieldMatches(t, MarkupPriority[j])

\* C7: in FetchMode the markup handed to the converter is the value of the
\* first matching field in the order source, content, html, body,
\* htmlContent, htmlBody, design, template; a template with content and html
\* (and no source) uses content, one with only a design field '<div>' uses design.
C7_MarkupPriority ==
  ~CustomRun =>
    /\ \A c \in CallIndices("convertHubspotTemplate") :
         LET t == templateToMigrate[calls[c].pos]
             f == calls[c].field
         IN /\ IsFirstMatch(t, f)
            /\ t.source = Absent /\ t.content # Absent /\ t.html # Absent => f = "content"
            /\ (/\ t.source = Absent /\ t.content = Absent /\ t.html = Absent
                /\ t.body # Html /\ t.htmlContent # Html /\ t.htmlBody # Html
                /\ t.design = Html) => f = "design"
    /\ \A pos \in 1..idx :
         (\E k \in 1..Len(MarkupPriority) : FieldMatches(templateToMigrate[pos], MarkupPriority[k]))
           => \E c \in CallIndices("convertHubspotTemplate") : calls[c].pos = pos

C7_Witness ==
  /\ ~CustomRun
  /\ Responded
  /\ \E c \in CallIndices("convertHubspotTemplate") :
       LET t == templateToMigrate[calls[c].pos] IN
       /\ calls[c].field = "design"
       /\ t.body = Text /\ t.htmlBody = Object /\ t.template = Html

----------------------------------------------------------------------------
(* C8 *)

\* Nothing was done for the template at position pos: no conversion, no asset
\* creation, no entry in results or errors.
PassedOver(pos) ==
  /\ \A c \in 1..Len(calls) :
       calls[c].op \in {"convertHubspotTemplate", "createEmailTemplate"} => calls[c].pos # pos
  /\ \A m \in 1..Len(results) : results[m].pos # pos
  /\ \A e \in 1..Len(errors) : errors[e].pos # pos
  /\ Responded /\ IsSummary(responses[1]) =>
       /\ \A m \in 1..Len(responses[1].migrated) : responses[1].migrated[m].pos # pos
       /\ \A e \in 1..Len(responses[1].errors) : responses[1].errors[e].pos # pos

\* No field of the template is a string containing '<'.
HasNoAngleBracket(t) == \A k \in 1..Len(MarkupPriority) : t[MarkupPriority[k]] # Html

\* C8 as stated: in FetchMode a fetched template with no field containing '<'
\* is skipped (no conversion, no asset creation, in neither migrated nor errors).
C8_NoAngleBracketSkipped ==
  ~CustomRun =>
    \A pos \in 1..idx : HasNoAngleBracket(templateToMigrate[pos]) => PassedOver(pos)

\* C8 amended: in FetchMode a fetched template whose source, content and html
\* are all empty and none of whose alternate fields is a string containing
\* '<' is skipped.
C8_NoMarkupSkipped ==
  ~CustomRun =>
    \A pos \in 1..idx : HasNoMarkup(templateToMigrate[pos]) => PassedOver(pos)

C8_Witness ==
  /\ ~CustomRun
  /\ Responded
  /\ IsSummary(responses[1])
  /\ idx = 1
  /\ HasNoMarkup(templateToMigrate[1])
  /\ templateToMigrate[1].body = Text
  /\ responses[1].totalAttempted = 1
  /\ Len(responses[1].migrated) = 0

----------------------------------------------------------------------------
(* C9 *)

StoreLookups(provider) ==
  {c \in CallIndices("getIntegrationTokens") : calls[c].name = provider}

\* C9: with an inline hubspotToken the store is not read for 'hubspot' and
\* the supplied token is the source token; with complete sfmcCredentials the
\* destination token comes from the exchange and the store is not read for
\* 'sfmc', also when the exchange fails (the run aborts); the store is read
\* for a provider only when the inline value is absent or incomplete.
C9_InlineCredentialsBypassStore ==
  /\ req.hubspotToken # Absent =>
       /\ StoreLookups("hubspot") = {}
       /\ hubspotAccessToken \in {Absent, req.hubspotToken}
       /\ req.userId /\ pc \notin {"start", "hubspot"} => hubspotAccessToken = req.hubspotToken
       /\ \A c \in CallIndices("axios.get") \cup CallIndices("createHubspotClient") :
            calls[c].token = req.hubspotToken
  /\ req.sfmcCredentials = "full" =>
       /\ StoreLookups("sfmc") = {}
       /\ sfmcAccessToken \in {Absent, "exchangedSfmcToken"}
       /\ \A c \in AssetCreates \cup FolderListCalls \cup FolderCreateCalls :
            /\ calls[c].token = "exchangedSfmcToken"
            /\ \E x \in CallIndices("getSFMCToken") : x < c /\ calls[x].result = "returned"
       /\ (\E x \in CallIndices("getSFMCToken") : calls[x].result = "threw") =>
            /\ Responded
            /\ IsErrorShape(responses[1])
            /\ sfmcAccessToken = Absent
            /\ AssetCreates \cup FolderListCalls \cup FolderCreateCalls = {}
  /\ StoreLookups("hubspot") # {} => req.hubspotToken = Absent
  /\ StoreLookups("sfmc") # {} => req.sfmcCredentials \in {Absent, "partial"}
  /\ req.sfmcCredentials \in {Absent, "partial"} => CallIndices("getSFMCToken") = {}

C9_Witness ==
  /\ req.hubspotToken # Absent
  /\ req.sfmcCredentials = "full"
  /\ Responded
  /\ IsSummary(responses[1])
  /\ Len(Gets(calls)) > 0
  /\ AssetCreates # {}

----------------------------------------------------------------------------
(* C10 *)

CredentialLookupFailed(provider) ==
  \E c \in StoreLookups(provider) : calls[c].result \in {"absent", "threw"}

ExchangeFailed == \E x \in CallIndices("getSFMCToken") : calls[x].result = "threw"

FolderResolutionFailed ==
  \/ \E c \in FolderListCalls \cup FolderCreateCalls : calls[c].result = "threw"
  \/ /\ \E c \in FolderListCalls : calls[c].result = "returned"
     /\ \A i \in 1..Len(foldersResponse) : foldersResponse[i].name # "Content Builder"

AllEndpointsFailed ==
  /\ Len(Gets(calls)) = Len(Endpoints)
  /\ \A j \in 1..Len(Endpoints) : Gets(calls)[j].result = "threw"

\* The status codes of the taxonomy that C10 and its amendment share.
\* The status of every run-level failure the claim lists.
StatusTaxonomy ==
  /\ ~req.userId /\ pc # "start" => Responded /\ responses[1].status = 400
  /\ CredentialLookupFailed("hubspot") => Responded /\ responses[1].status = 400
  /\ CredentialLookupFailed("sfmc") \/ ExchangeFailed =>
       Responded /\ responses[1].status = 400
  /\ AllEndpointsFailed =>
       /\ Responded
       /\ responses[1].status = 500
       /\ responses[1].details = Endpoints[Len(Endpoints)]
  /\ FolderResolutionFailed => Responded /\ responses[1].status = 400

\* A conversion or creation failure of the template at position i leaves the
\* response a 200 with the item in errors.
ItemFailureKeepsStatus(i) ==
  ItemThrew(i) /\ pc = "done" =>
    /\ Len(responses) = 1
    /\ responses[1].status = 200
    /\ \E e \in 1..Len(responses[1].errors) : responses[1].errors[e].pos = i

\* C10: missing userId, and missing or invalid credentials of either system,
\* yield 400; failure of all source endpoints yields 500 with the last
\* endpoint's details; folder resolution failure yields 400; a per-item
\* conversion or creation failure leaves the response a 200 with the item in
\* errors.
C10_StatusCodes ==
  /\ StatusTaxonomy
  /\ \A i \in 1..Len(IteratedList) : ItemFailureKeepsStatus(i)

----------------------------------------------------------------------------
\* Calls made for the templates of the iterated list.
ItemCallIndices == CallIndices("convertHubspotTemplate") \cup AssetCreates

\* The fetch produced a non-empty list: the run went on to the FetchMode loop.
FetchedSome == ~CustomRun /\ Len(hubspotTemplates) > 0

\* min(limit, number of fetched templates), for a limit that is not negative
TruncatedLength ==
  IF req.limit < Len(hubspotTemplates) THEN req.limit ELSE Len(hubspotTemplates)

\* C11: in FetchMode the fetched list is truncated to `limit` (10 when the
\* request has none) before any conversion: for a limit that is not negative
\* the iterated list is the first
\* min(limit, fetched) templates in their order, no conversion or asset
\* creation is made for a later template, and totalAttempted is that number.
C11_TruncatedToLimit ==
  FetchedSome /\ req.limit >= 0 =>
    /\ Len(templateToMigrate) = TruncatedLength
    /\ \A i \in 1..Len(templateToMigrate) : templateToMigrate[i] = hubspotTemplates[i]
    /\ \A c \in ItemCallIndices :
         /\ calls[c].pos \in 1..TruncatedLength
         /\ calls[c].name = hubspotTemplates[calls[c].pos].name
    /\ \A i \in 1..Len(responses) :
         IsSummary(responses[i]) => responses[i].totalAttempted = TruncatedLength

\* Two templates fetched, limit 1: the summary counts one and the asset was
\* created for the first template only.
C11_Witness ==
  /\ FetchedSome
  /\ Len(hubspotTemplates) = 2
  /\ req.limit = 1
  /\ Responded
  /\ IsSummary(responses[1])
  /\ responses[1].totalAttempted = 1
  /\ \E c \in AssetCreates : calls[c].pos = 1 /\ calls[c].result = "returned"

----------------------------------------------------------------------------
\* The requests of source endpoints that returned a list without items.
EmptyListGets ==
  {c \in CallIndices("axios.get") :
     calls[c].result = "returned" /\ calls[c].field = Absent /\ hubspotTemplates = <<>>}

\* C12: a source endpoint (the first or a later one) that answers with zero
\* templates ends the run as a success: no further endpoint is requested, no
\* asset is created, and the response is a 200 with success, message, an empty
\* migrated and templatesCount 0.
C12_ZeroTemplatesIsSuccess ==
  \A c \in EmptyListGets :
    /\ c = Len(calls)
    /\ \A d \in CallIndices("axios.get") : d # c => calls[d].result = "threw"
    /\ AssetCreates = {}
    /\ CallIndices("convertHubspotTemplate") = {}
    /\ Responded
    /\ responses[1].status = 200
    /\ responses[1].fields = {"success", "message", "migrated", "templatesCount"}
    /\ responses[1].migrated = <<>>
    /\ responses[1].templatesCount = 0

\* The third endpoint is the first to answer, with an empty list.
C12_Witness ==
  /\ EmptyListGets # {}
  /\ Len(fetchErrors) = 2
  /\ Len(Gets(calls)) = 3
  /\ Responded
  /\ responses[1].status = 200

----------------------------------------------------------------------------
\* C13: every run ends, and ends with exactly one response: from every state
\* the handler reaches its terminal state, it has returned no response before
\* that state and exactly one in it, whichever step failed on the way.
C13_ExactlyOneResponse ==
  /\ (pc # "done") ~> (pc = "done")
  /\ [](pc # "done" => responses = <<>>)
  /\ [](pc = "done" => Len(responses) = 1)
  /\ [][pc = "done" => UNCHANGED <<pc, responses>>]_vars

\* A run that ended in the outermost catch after a successful folder
\* resolution: an exception escaped a step, and one response was returned.
C13_Witness ==
  /\ pc = "done"
  /\ Len(responses) = 1
  /\ responses[1].error = "Failed to migrate email templates"
  /\ contentBuilderFolderId # Absent

----------------------------------------------------------------------------
IsAssetCreate(c) == c.op = "createEmailTemplate"
IsConversion(c) == c.op = "convertHubspotTemplate"

\* What a run asked the destination to create, in call order: position, name, folder.
AssetRequests(cs) ==
  LET sel == SelectSeq(cs, IsAssetCreate)
  IN [i \in 1..Len(sel) |-> <<sel[i].pos, sel[i].name, sel[i].folder>>]

\* How the conversions of a run ended, in call order.
ConversionResults(cs) ==
  LET sel == SelectSeq(cs, IsConversion)
  IN [i \in 1..Len(sel) |-> <<sel[i].pos, sel[i].name, sel[i].result>>]

\* The current run is the second one of a request without folderId, and the
\* first run found 'HubSpot Templates' under 'Content Builder' already there.
SecondRunOnExistingFolder ==
  /\ Len(history) = 1
  /\ req.folderId = Absent
  /\ history[1].contentBuilderFolderId # Absent
  /\ \A c \in 1..Len(history[1].calls) : history[1].calls[c].op # "createSFMCFolder"

\* Both runs ended with a summary of the same iterated list whose conversions
\* ended the same way.
SameRunTwice ==
  /\ Responded
  /\ IsSummary(responses[1])
  /\ IsSummary(history[1].responses[1])
  /\ templateToMigrate = history[1].templateToMigrate
  /\ ConversionResults(calls) = ConversionResults(history[1].calls)

\* C14: a second run of the same request, with 'HubSpot Templates' already
\* under 'Content Builder', creates no folder, resolves the same folder id, and
\* makes the asset-create calls of the first run again (same positions, names
\* and folder): none is left out because the first run created the asset.
C14_SecondRunRepeatsCreates ==
  SecondRunOnExistingFolder =>
    /\ FolderCreateCalls = {}
    /\ contentBuilderFolderId \in {Absent, history[1].contentBuilderFolderId}
    /\ \A c \in AssetCreates : calls[c].folder = history[1].contentBuilderFolderId
    /\ SameRunTwice => AssetRequests(calls) = AssetRequests(history[1].calls)

\* Both runs created the asset of the same template in the existing folder.
C14_Witness ==
  /\ SecondRunOnExistingFolder
  /\ SameRunTwice
  /\ ~CustomRun
  /\ FolderListCalls # {}
  /\ AssetRequests(calls) # <<>>
  /\ \E c \in 1..Len(history[1].calls) :
       /\ history[1].calls[c].op = "createEmailTemplate"
       /\ history[1].calls[c].result = "returned"
  /\ \E c \in AssetCreates : calls[c].result = "returned"

----------------------------------------------------------------------------
\* getSFMCFolders has returned its list to this run.
FoldersListed == \E c \in FolderListCalls : calls[c].result = "returned"

\* The folders of the returned list named exactly 'Content Builder'.
ExactRoots ==
  {i \in 1..Len(foldersResponse) : foldersResponse[i].name = "Content Builder"}

\* The 'HubSpot Templates' folders of the returned list whose parent is rootId.
ChildrenOf(rootId) ==
  {i \in 1..Len(foldersResponse) :
     /\ foldersResponse[i].name = "HubSpot Templates"
     /\ foldersResponse[i].parentId = rootId}

\* The 'HubSpot Templates' folders of the returned list under another parent.
StrayOf(rootId) ==
  {i \in 1..Len(foldersResponse) :
     /\ foldersResponse[i].name = "HubSpot Templates"
     /\ foldersResponse[i].parentId # rootId}

\* C15: how the destination folder is decided.  A folderId of the request is
\* used as it is, without a folder-list or folder-create call.  Otherwise: a
\* list without a folder named exactly 'Content Builder' aborts the run and no
\* folder is created; a 'HubSpot Templates' folder whose parentId is the root's
\* id is reused and no folder is created; a 'HubSpot Templates' folder under
\* another parent is not reused, and the folder is created with the root's id
\* as its parent.
C15_FolderDecision ==
  /\ req.folderId # Absent =>
       /\ FolderListCalls = {} /\ FolderCreateCalls = {}
       /\ contentBuilderFolderId \in {Absent, req.folderId}
       /\ pc \in {"mode", "custom", "client", "fetch", "iterate"} =>
            contentBuilderFolderId = req.folderId
       /\ \A a \in AssetCreates : calls[a].folder = req.folderId
  /\ req.folderId = Absent /\ FoldersListed =>
       IF ExactRoots = {}
         THEN /\ Responded
              /\ IsErrorShape(responses[1])
              /\ FolderCreateCalls = {}
              /\ contentBuilderFolderId = Absent
              /\ AssetCreates = {}
         ELSE LET rootId == foldersResponse[FirstIndex(ExactRoots)].id IN
              IF ChildrenOf(rootId) # {}
                THEN /\ contentBuilderFolderId = foldersResponse[FirstIndex(ChildrenOf(rootId))].id
                     /\ FolderCreateCalls = {}
                ELSE /\ \A i \in StrayOf(rootId) : contentBuilderFolderId # foldersResponse[i].id
                     /\ pc = "createFolder" \/ Cardinality(FolderCreateCalls) = 1
                     /\ \A c \in FolderCreateCalls :
                          /\ calls[c].folder = rootId
                          /\ calls[c].name = "HubSpot Templates"
                     /\ contentBuilderFolderId # Absent =>
                          /\ contentBuilderFolderId = NewFolderId
                          /\ \E c \in FolderCreateCalls : calls[c].result = "returned"

\* The list holds 'HubSpot Templates' under another parent only: the folder was
\* created under the root and the stray folder was not used.
C15_Witness ==
  /\ req.folderId = Absent
  /\ FoldersListed
  /\ ExactRoots # {}
  /\ StrayOf(foldersResponse[FirstIndex(ExactRoots)].id) # {}
  /\ ChildrenOf(foldersResponse[FirstIndex(ExactRoots)].id) = {}
  /\ \E c \in FolderCreateCalls :
       calls[c].result = "returned" /\ calls[c].folder = foldersResponse[FirstIndex(ExactRoots)].id
  /\ contentBuilderFolderId = NewFolderId

----------------------------------------------------------------------------
\* The outcome of the template at position q is settled: it has an entry in
\* results or in errors, or it is a fetched template that the loop passes over.
OutcomeRecorded(q) ==
  \/ \E m \in 1..Len(results) : results[m].pos = q
  \/ \E e \in 1..Len(errors) : errors[e].pos = q
  \/ ~CustomRun /\ HasNoMarkup(IteratedList[q])

\* Positions grow strictly along a list of entries.
InListOrder(entries) ==
  \A m \in 1..Len(entries) : \A n \in 1..Len(entries) :
    m < n => entries[m].pos < entries[n].pos

\* A step that calls createEmailTemplate for position p starts with the
\* outcome of every earlier position settled, and settles the outcome of p.
C16_CreateStep ==
  \A c \in (Len(calls) + 1)..Len(calls') :
    calls'[c].op = "createEmailTemplate" =>
      \E p \in 1..Len(IteratedList) :
        /\ calls'[c].pos = p
        /\ \A q \in 1..(p - 1) : OutcomeRecorded(q)
        /\ ~OutcomeRecorded(p)
        /\ OutcomeRecorded(p)'

\* At most one asset-create call per position, made in list order; the entries
\* of results and of errors follow the order of the iterated list, and the
\* summary returns them as they are.
C16_Order ==
  /\ \A a \in AssetCreates : \A b \in AssetCreates :
       a < b => calls[a].pos < calls[b].pos
  /\ InListOrder(results)
  /\ InListOrder(errors)
  /\ \A m \in 1..Len(results) : results[m].name = IteratedList[results[m].pos].name
  /\ \A e \in 1..Len(errors) : errors[e].name = IteratedList[errors[e].pos].name
  /\ \A m \in 1..Len(results) : \A e \in 1..Len(errors) : results[m].pos # errors[e].pos
  /\ \A i \in 1..Len(responses) :
       IsSummary(responses[i]) =>
         responses[i].migrated = results /\ responses[i].errors = errors

\* C16: the templates are processed one at a time in list order, without
\* retry: each position causes at most one asset-create call, the call for a
\* position starts only after the outcome of every earlier position is
\* recorded, and the entries of migrated and of errors keep the relative order
\* of the templates.
C16_OneAtATime == [][C16_CreateStep]_vars /\ []C16_Order

\* The first template failed at asset creation and the second one migrated.
C16_Witness ==
  /\ Responded
  /\ IsSummary(responses[1])
  /\ Len(IteratedList) = 2
  /\ \E e \in 1..Len(responses[1].errors) : responses[1].errors[e].pos = 1
  /\ \E m \in 1..Len(responses[1].migrated) : responses[1].migrated[m].pos = 2
  /\ Cardinality(AssetCreates) = 2

----------------------------------------------------------------------------
\* A request with custom templates, a user id and no inline source token.
CustomWithoutToken == CustomRun /\ req.userId /\ req.hubspotToken = Absent

\* C17: CustomMode needs source credentials although it never contacts the
\* source: without an inline hubspotToken the store is read for 'hubspot'
\* first, and when it holds no row (or the lookup fails) the run ends with an
\* error response, before any destination call, conversion or asset creation.
C17_CustomModeNeedsSourceToken ==
  CustomWithoutToken =>
    /\ pc \notin {"start", "hubspot"} => Cardinality(StoreLookups("hubspot")) = 1
    /\ \A c \in StoreLookups("hubspot") : c = 1
    /\ CredentialLookupFailed("hubspot") =>
         /\ Responded
         /\ IsErrorShape(responses[1])
         /\ responses[1].status \in {400, 500}
         /\ Len(calls) = 1
         /\ AssetCreates = {}
         /\ sfmcAccessToken = Absent /\ contentBuilderFolderId = Absent
         /\ results = <<>> /\ errors = <<>>

\* Custom templates and complete destination credentials, but no source token
\* in the request or in the store: the run ended with an error response.
C17_Witness ==
  /\ CustomWithoutToken
  /\ req.sfmcCredentials = "full"
  /\ \E c \in StoreLookups("hubspot") : calls[c].result = "absent"
  /\ Responded
  /\ responses[1].status = 400
  /\ AssetCreates = {}

----------------------------------------------------------------------------
\* The calls that reach the source: the client construction and the requests.
SourceCalls == CallIndices("createHubspotClient") \cup CallIndices("axios.get")

\* The destination holds the folder that createSFMCFolder made under parentId.
CreatedFolderInPlace(parentId) ==
  /\ sfmcFolders # <<>>
  /\ \E i \in 1..Len(sfmcFolders[1]) :
       sfmcFolders[1][i] = Folder(NewFolderId, "HubSpot Templates", parentId)

\* C18: folder resolution comes before any use of the source and is not
\* undone.  A source endpoint is requested only when the folder is resolved,
\* after the folder calls, all of which returned; a folder the run created
\* stays in the destination however the run ends, also when the fetch fails
\* or finds no template and no asset is ever put into it.
C18_FolderBeforeFetch ==
  /\ \A g \in SourceCalls :
       /\ contentBuilderFolderId # Absent
       /\ \A f \in FolderListCalls \cup FolderCreateCalls :
            f < g /\ calls[f].result = "returned"
       /\ req.folderId = Absent => FoldersListed
  /\ \A c \in FolderCreateCalls :
       calls[c].result = "returned" => CreatedFolderInPlace(calls[c].folder)
  /\ \A c \in 1..Len(calls) :
       calls[c].op \in {"getIntegrationTokens", "getSFMCToken", "getSFMCFolders",
                        "createSFMCFolder", "createHubspotClient", "axios.get",
                        "convertHubspotTemplate", "createEmailTemplate"}

\* The run created the folder, then all four source endpoints failed: it
\* ended with the 500 and the folder is left in the destination without asset.
C18_Witness ==
  /\ \E c \in FolderCreateCalls :
       calls[c].result = "returned" /\ CreatedFolderInPlace(calls[c].folder)
  /\ Len(fetchErrors) = Len(Endpoints)
  /\ Responded
  /\ responses[1].status = 500
  /\ AssetCreates = {}

\* The run created the folder and the source answered with no template: it
\* ended with the 200 of the empty account, the folder left without asset.
CreatedFolderEmptyAccount ==
  /\ \E c \in FolderCreateCalls :
       calls[c].result = "returned" /\ CreatedFolderInPlace(calls[c].folder)
  /\ EmptyListGets # {}
  /\ Responded
  /\ responses[1].status = 200
  /\ AssetCreates = {}

----------------------------------------------------------------------------
\* The markup a custom template is converted from: its content, else its
\* html, else the placeholder paragraph.
ExpectedCustomSource(t) ==
  IF t.content # Absent THEN "content"
  ELSE IF t.html # Absent THEN "html"
  ELSE "placeholder"

ConversionsAt(p) == {c \in CallIndices("convertHubspotTemplate") : calls[c].pos = p}
AssetCreatesAt(p) == {a \in AssetCreates : calls[a].pos = p}

\* The run entered the CustomMode loop and has ended.
CustomLoopEnded == CustomRun /\ contentBuilderFolderId # Absent /\ pc = "done"

\* C19: in CustomMode no template is passed over and limit plays no part:
\* in a run that entered the loop every element of customTemplates was
\* converted exactly once (from its content, its html or the placeholder),
\* its asset creation was attempted exactly once if the conversion returned,
\* and the run ends with the summary whose totalAttempted is the length of
\* customTemplates, also when that exceeds limit.
C19_CustomModeConvertsAll ==
  CustomLoopEnded =>
    /\ \A p \in 1..Len(req.customTemplates) :
         /\ Cardinality(ConversionsAt(p)) = 1
         /\ \A c \in ConversionsAt(p) :
              /\ calls[c].field = ExpectedCustomSource(req.customTemplates[p])
              /\ calls[c].name = req.customTemplates[p].name
              /\ Cardinality(AssetCreatesAt(p)) =
                   (IF calls[c].result = "returned" THEN 1 ELSE 0)
    /\ Responded
    /\ IsSummary(responses[1])
    /\ responses[1].totalAttempted = Len(req.customTemplates)

====
